---- MODULE Spec2Model ----
(***************************************************************************)
(* Model of package butanex (merge.go): MergeFiles merges a list of YAML   *)
(* documents into one tree under a path-pattern policy.                    *)
(*                                                                         *)
(* Go strings are modelled as sequences of one-character strings, so that  *)
(* prefix, suffix, concatenation and byte-wise comparison are computed as  *)
(* the code computes them.  A YAML value is a tagged record:               *)
(*    [t |-> "int", v |-> n]      scalar (integer)                          *)
(*    [t |-> "str", v |-> chars]  scalar (string)                           *)
(*    [t |-> "seq", v |-> <<..>>] []any                                     *)
(*    [t |-> "map", v |-> f]      map[string]any, f a function on keys      *)
(*    [t |-> "nil"]               a nil map / nil interface                 *)
(***************************************************************************)
EXTENDS Naturals, Integers, Sequences, FiniteSets, TLC

VARIABLES options, files, policy, root, idx, pc, err, result, reads,
          prev, config, qpath, qres

vars == <<options, files, policy, root, idx, pc, err, result, reads,
          prev, config, qpath, qres>>

(***************************************************************************)
(* Strings                                                                 *)
(***************************************************************************)
Ord ==
  [c \in {"$", ".", "/", "a", "b", "c", "f", "g", "h"} |->
     CASE c = "$" -> 36 [] c = "." -> 46 [] c = "/" -> 47
       [] c = "a" -> 97 [] c = "b" -> 98 [] c = "c" -> 99
       [] c = "f" -> 102 [] c = "g" -> 103 [] c = "h" -> 104]

HasPrefix(s, p) == Len(p) <= Len(s) /\ SubSeq(s, 1, Len(p)) = p

HasSuffix(s, p) ==
  Len(p) <= Len(s) /\ SubSeq(s, Len(s) - Len(p) + 1, Len(s)) = p

RECURSIVE StrCompare(_, _)
StrCompare(a, b) ==
  IF a = <<>> THEN (IF b = <<>> THEN 0 ELSE -1)
  ELSE IF b = <<>> THEN 1
  ELSE IF Ord[a[1]] < Ord[b[1]] THEN -1
  ELSE IF Ord[a[1]] > Ord[b[1]] THEN 1
  ELSE StrCompare(Tail(a), Tail(b))

Dot == <<".">>
Dollar == <<"$">>
DollarDot == <<"$", ".">>

(***************************************************************************)
(* Policy matcher                                                          *)
(***************************************************************************)
\* compareBool with the two signs exchanged: relative patterns sort first.
compareBool_Swapped(a, b) == IF a = b THEN 0 ELSE IF a THEN -1 ELSE 1

compareBool(a, b) == IF a = b THEN 0 ELSE IF a THEN 1 ELSE -1

\* The comparison function handed to slices.SortFunc in buildPolicy.
policyLess(a, b) ==
  LET c == compareBool(a.isRelative, b.isRelative)
  IN  IF c # 0 THEN c ELSE StrCompare(a.pattern, b.pattern)

Swap(data, i, j) ==
  [data EXCEPT ![i] = data[j], ![j] = data[i]]

RECURSIVE SiftBack(_, _)
SiftBack(data, j) ==
  IF j > 1 /\ policyLess(data[j], data[j - 1]) < 0
  THEN SiftBack(Swap(data, j, j - 1), j - 1)
  ELSE data

RECURSIVE InsertionSort(_, _)
InsertionSort(data, i) ==
  IF i > Len(data) THEN data ELSE InsertionSort(SiftBack(data, i), i + 1)

\* slices.SortFunc: for the slice lengths of this model the Go runtime sorts
\* by insertion.
SortFunc(data) == InsertionSort(data, 2)

match(e, contextPath) ==
  \/ e.isRelative /\ HasSuffix(contextPath, e.pattern)
  \/ e.pattern = contextPath

normalize(pattern) ==
  IF ~HasPrefix(pattern, Dot) /\ ~HasPrefix(pattern, DollarDot)
  THEN DollarDot \o pattern
  ELSE pattern

\* A policy list under construction: panicked, or the entries so far.
addPolicy(policies, pattern, kind) ==
  IF policies.panicked THEN policies
  ELSE IF \E i \in 1..Len(policies.entries) :
            /\ policies.entries[i].pattern = pattern
            /\ policies.entries[i].policy # kind
  THEN [panicked |-> TRUE, entries |-> policies.entries]
  ELSE [panicked |-> FALSE,
        entries |-> Append(policies.entries,
                           [pattern |-> normalize(pattern),
                            policy |-> kind,
                            isRelative |-> HasPrefix(normalize(pattern), Dot)])]

RECURSIVE addAll(_, _, _)
addAll(policies, patterns, kind) ==
  IF patterns = <<>> THEN policies
  ELSE addAll(addPolicy(policies, Head(patterns), kind), Tail(patterns), kind)

NoPolicies == [panicked |-> FALSE, entries |-> <<>>]

buildPolicy(c) ==
  LET ow == addAll(addAll(NoPolicies, c.Overwrite, TRUE), c.Append, FALSE)
      rp == addAll(NoPolicies, c.ResolvePath, TRUE)
  IN  [panicked |-> ow.panicked \/ rp.panicked,
       overwrite |-> SortFunc(ow.entries),
       defaultOverwrite |-> c.DefaultOverWrite,
       resolvePaths |-> rp.entries]

RECURSIVE firstMatch(_, _, _)
firstMatch(entries, contextPath, default) ==
  IF entries = <<>> THEN default
  ELSE IF match(Head(entries), contextPath) THEN Head(entries).policy
  ELSE firstMatch(Tail(entries), contextPath, default)

isOverwrite(m, contextPath) ==
  firstMatch(m.overwrite, contextPath, m.defaultOverwrite)

resolvePath(m, contextPath) ==
  \E i \in 1..Len(m.resolvePaths) : match(m.resolvePaths[i], contextPath)

(***************************************************************************)
(* path/filepath (Unix): Clean, Join and Dir, computed lexically           *)
(***************************************************************************)
Slash == <<"/">>
DotDot == <<".", ".">>

\* The "/"-separated components of path, empty components included.
RECURSIVE Split(_, _)
Split(path, cur) ==
  IF path = <<>> THEN <<cur>>
  ELSE IF Head(path) = "/" THEN <<cur>> \o Split(Tail(path), <<>>)
  ELSE Split(Tail(path), Append(cur, Head(path)))

RECURSIVE CleanComps(_, _, _)
CleanComps(comps, out, rooted) ==
  IF comps = <<>> THEN out
  ELSE LET c == Head(comps)
           rest == Tail(comps)
       IN  IF c = <<>> \/ c = Dot THEN CleanComps(rest, out, rooted)
           ELSE IF c = DotDot
           THEN IF out # <<>> /\ out[Len(out)] # DotDot
                THEN CleanComps(rest, SubSeq(out, 1, Len(out) - 1), rooted)
                ELSE IF rooted THEN CleanComps(rest, out, rooted)
                ELSE CleanComps(rest, Append(out, c), rooted)
           ELSE CleanComps(rest, Append(out, c), rooted)

RECURSIVE JoinComps(_)
JoinComps(comps) ==
  IF comps = <<>> THEN <<>>
  ELSE IF Len(comps) = 1 THEN comps[1]
  ELSE comps[1] \o Slash \o JoinComps(Tail(comps))

Clean(path) ==
  IF path = <<>> THEN Dot
  ELSE LET rooted == path[1] = "/"
           body == JoinComps(CleanComps(Split(path, <<>>), <<>>, rooted))
           out == IF rooted THEN Slash \o body ELSE body
       IN  IF out = <<>> THEN Dot ELSE out

\* filepath.Join(a, b)
Join(a, b) ==
  IF a # <<>> THEN Clean(a \o Slash \o b)
  ELSE IF b # <<>> THEN Clean(b)
  ELSE <<>>

RECURSIVE LastSlash(_, _)
LastSlash(path, i) ==
  IF i = 0 \/ path[i] = "/" THEN i ELSE LastSlash(path, i - 1)

\* filepath.Dir(path)
Dir(path) == Clean(SubSeq(path, 1, LastSlash(path, Len(path))))

(***************************************************************************)
(* Document trees                                                          *)
(***************************************************************************)
Nil == [t |-> "nil"]
IntV(n) == [t |-> "int", v |-> n]
StrV(s) == [t |-> "str", v |-> s]
SeqV(q) == [t |-> "seq", v |-> q]
MapV(f) == [t |-> "map", v |-> f]
EmptyMap == <<>>

\* dst[key] = v
Put(object, key, v) ==
  [k \in (DOMAIN object) \cup {key} |-> IF k = key THEN v ELSE object[k]]

Without(object, key) == [k \in (DOMAIN object) \ {key} |-> object[k]]

\* reflect.DeepEqual on two decoded values
DeepEqual(x, y) == x.t = y.t /\ x.v = y.v

(***************************************************************************)
(* Path resolver                                                           *)
(***************************************************************************)
RECURSIVE resolvePaths(_, _, _, _)
RECURSIVE resolvePathsValue(_, _, _, _)
RECURSIVE collectUpdated(_)

\* The elements appended to `updated` in the sequence case.
collectUpdated(rs) ==
  IF rs = <<>> THEN <<>>
  ELSE IF Head(rs).ok THEN <<Head(rs).upd>> \o collectUpdated(Tail(rs))
  ELSE collectUpdated(Tail(rs))

\* resolvePathsValue replacing a sequence as soon as one element was updated.
resolvePathsValue_Partial(m, v, fileRoot, ctxpath) ==
  IF v.t = "seq"
  THEN LET rs == [i \in 1..Len(v.v) |->
                    resolvePathsValue(m, v.v[i], fileRoot, ctxpath)]
           updated == collectUpdated(rs)
       IN  [val |-> SeqV([i \in 1..Len(v.v) |-> rs[i].val]),
            upd |-> SeqV(updated),
            ok |-> Len(updated) > 0]
  ELSE IF v.t = "map"
  THEN [val |-> MapV(resolvePaths(m, v.v, fileRoot, ctxpath)),
        upd |-> Nil, ok |-> FALSE]
  ELSE IF v.t = "str" /\ resolvePath(m, ctxpath)
  THEN [val |-> v, upd |-> StrV(Join(fileRoot, v.v)), ok |-> TRUE]
  ELSE [val |-> v, upd |-> Nil, ok |-> FALSE]

\* val: v after the call (mappings inside it are rewritten in place);
\* upd, ok: the pair the function returns.
resolvePathsValue(m, v, fileRoot, ctxpath) ==
  IF v.t = "seq"
  THEN LET rs == [i \in 1..Len(v.v) |->
                    resolvePathsValue(m, v.v[i], fileRoot, ctxpath)]
           updated == collectUpdated(rs)
       IN  [val |-> SeqV([i \in 1..Len(v.v) |-> rs[i].val]),
            upd |-> SeqV(updated),
            ok |-> Len(updated) = Len(v.v)]
  ELSE IF v.t = "map"
  THEN [val |-> MapV(resolvePaths(m, v.v, fileRoot, ctxpath)),
        upd |-> Nil, ok |-> FALSE]
  ELSE IF v.t = "str" /\ resolvePath(m, ctxpath)
  THEN [val |-> v, upd |-> StrV(Join(fileRoot, v.v)), ok |-> TRUE]
  ELSE [val |-> v, upd |-> Nil, ok |-> FALSE]

resolvePaths(m, object, fileRoot, ctxpath) ==
  [k \in DOMAIN object |->
     LET r == resolvePathsValue(m, object[k], fileRoot, ctxpath \o Dot \o k)
     IN  IF r.ok THEN r.upd ELSE r.val]

(***************************************************************************)
(* Document merger                                                         *)
(***************************************************************************)
NoErr == [kind |-> "none", path |-> <<>>]
Mismatch(cpath) == [kind |-> "mismatch", path |-> cpath]
Duplicated(cpath) == [kind |-> "duplicated", path |-> cpath]
DuplicateKeys(cpath) == [kind |-> "duplicate", path |-> cpath]

\* mergeSequence appending in the other order: the source elements first.
mergeSequence_SourceFirst(m, dst, key, sv, ctxpath) ==
  LET exists == key \in DOMAIN dst
  IN  IF ~exists THEN [dst |-> Put(dst, key, sv), err |-> NoErr]
      ELSE IF dst[key].t = "seq"
      THEN IF ~isOverwrite(m, ctxpath)
           THEN [dst |-> Put(dst, key, SeqV(sv.v \o dst[key].v)), err |-> NoErr]
           ELSE [dst |-> Put(dst, key, sv), err |-> NoErr]
      ELSE [dst |-> dst, err |-> Mismatch(ctxpath \o Dot \o key)]

\* case []any of mergeMapping
mergeSequence(m, dst, key, sv, ctxpath) ==
  LET cpath == ctxpath \o Dot \o key
      exists == key \in DOMAIN dst
      isSlice == exists /\ dst[key].t = "seq"
  IN  IF ~exists THEN [dst |-> Put(dst, key, sv), err |-> NoErr]
      ELSE IF isSlice
      THEN IF ~isOverwrite(m, ctxpath)
           THEN [dst |-> Put(dst, key, SeqV(dst[key].v \o sv.v)), err |-> NoErr]
           ELSE [dst |-> Put(dst, key, sv), err |-> NoErr]
      ELSE IF ~isSlice THEN [dst |-> dst, err |-> Mismatch(cpath)]
      ELSE IF isOverwrite(m, ctxpath) THEN [dst |-> dst, err |-> Duplicated(cpath)]
      ELSE [dst |-> dst, err |-> NoErr]

\* mergeScalar without the DeepEqual case: an equal value is a conflict too.
mergeScalar_NoEqualCase(m, dst, key, sv, ctxpath) ==
  LET cpath == ctxpath \o Dot \o key
      ok == key \in DOMAIN dst
  IN  IF ok /\ ~isOverwrite(m, ctxpath)
      THEN [dst |-> dst, err |-> DuplicateKeys(cpath)]
      ELSE [dst |-> Put(dst, key, sv), err |-> NoErr]

\* default case (scalar) of mergeMapping
mergeScalar(m, dst, key, sv, ctxpath) ==
  LET cpath == ctxpath \o Dot \o key
      ok == key \in DOMAIN dst
  IN  IF ok /\ DeepEqual(sv, dst[key]) THEN [dst |-> dst, err |-> NoErr]
      ELSE IF ok /\ ~isOverwrite(m, ctxpath)
      THEN [dst |-> dst, err |-> DuplicateKeys(cpath)]
      ELSE [dst |-> Put(dst, key, sv), err |-> NoErr]

RECURSIVE mergeMapping(_, _, _, _)
RECURSIVE mergeKey(_, _, _, _, _)

\* One iteration of the range loop of mergeMapping, for src[key]: the set of
\* possible results (a nested mapping is ranged over in any order).
mergeKey(m, dst, src, key, ctxpath) ==
  LET sv == src[key]
      cpath == ctxpath \o Dot \o key
      exists == key \in DOMAIN dst
  IN  IF sv.t = "seq" THEN {mergeSequence(m, dst, key, sv, ctxpath)}
      ELSE IF sv.t = "map"
      THEN IF ~exists
           THEN {[dst |-> Put(dst, key, MapV(o.dst)), err |-> o.err] :
                   o \in mergeMapping(m, EmptyMap, sv.v, cpath)}
           ELSE IF dst[key].t = "map"
           THEN {[dst |-> Put(dst, key, MapV(o.dst)), err |-> o.err] :
                   o \in mergeMapping(m, dst[key].v, sv.v, cpath)}
           ELSE {[dst |-> dst, err |-> Mismatch(cpath)]}
      ELSE {mergeScalar(m, dst, key, sv, ctxpath)}

\* mergeMapping returning after the first key it ranges over.
mergeMapping_FirstKeyOnly(m, dst, src, ctxpath) ==
  IF DOMAIN src = {} THEN {[dst |-> dst, err |-> NoErr]}
  ELSE UNION { mergeKey(m, dst, src, key, ctxpath) : key \in DOMAIN src }

\* mergeMapping(dst, src, ctxpath): Go ranges over src in an unspecified
\* order and returns at the first error, so the result is one of a set:
\* the destination as left by the call, and the error returned.
mergeMapping(m, dst, src, ctxpath) ==
  IF DOMAIN src = {} THEN {[dst |-> dst, err |-> NoErr]}
  ELSE UNION {
         UNION { IF o.err.kind # "none" THEN {o}
                 ELSE mergeMapping(m, o.dst, Without(src, key), ctxpath) :
                 o \in mergeKey(m, dst, src, key, ctxpath) } :
         key \in DOMAIN src }

(***************************************************************************)
(* MergeFiles                                                              *)
(***************************************************************************)
ReadErr == [kind |-> "read", path |-> <<>>]
YamlErr == [kind |-> "yaml", path |-> <<>>]

\* mergeBytes resolving the accumulated root, after the merge, instead of
\* the document before it.
mergeBytes_ResolveRoot(m, r, fileRoot, data) ==
  IF data.kind # "yaml" THEN {[root |-> r, config |-> Nil, err |-> YamlErr]}
  ELSE IF r = Nil
  THEN {[root |-> MapV(resolvePaths(m, data.tree, fileRoot, Dollar)),
         config |-> MapV(data.tree), err |-> NoErr]}
  ELSE {[root |-> IF o.err.kind = "none"
                  THEN MapV(resolvePaths(m, o.dst, fileRoot, Dollar))
                  ELSE MapV(o.dst),
         config |-> MapV(data.tree), err |-> o.err] :
          o \in mergeMapping(m, r.v, data.tree, Dollar)}

\* mergeBytes(fileRoot, data): the possible outcomes, each the root and the
\* decoded document as the call leaves them, and the error returned.
\* data is what yaml.Unmarshal makes of the bytes.
mergeBytes(m, r, fileRoot, data) ==
  IF data.kind # "yaml" THEN {[root |-> r, config |-> Nil, err |-> YamlErr]}
  ELSE LET cfg == IF fileRoot # <<>>
                  THEN resolvePaths(m, data.tree, fileRoot, Dollar)
                  ELSE data.tree
       IN  IF r = Nil
           THEN {[root |-> MapV(cfg), config |-> MapV(cfg), err |-> NoErr]}
           ELSE {[root |-> MapV(o.dst), config |-> MapV(cfg), err |-> o.err] :
                   o \in mergeMapping(m, r.v, cfg, Dollar)}

\* mergeFile(path): f is what os.ReadFile finds at path below m.filesDir:
\* unreadable, or bytes that yaml.Unmarshal rejects ("invalid") or decodes
\* into f.tree.
mergeFile(m, r, f) ==
  IF f.kind = "unreadable" THEN {[root |-> r, config |-> Nil, err |-> ReadErr]}
  ELSE mergeBytes(m, r, Dir(f.path), f)

(***************************************************************************)
(* Inputs                                                                  *)
(***************************************************************************)
MaxFiles == 2
MaxPatterns == 2

kA == <<"a">>
kB == <<"b">>
sF == <<"f">>
sG == <<"g">>
pathA == <<"$", ".", "a">>
pathB == <<"$", ".", "b">>
pathAA == <<"$", ".", "a", ".", "a">>
pathAB == <<"$", ".", "a", ".", "b">>
pathBA == <<"$", ".", "b", ".", "a">>
pathBB == <<"$", ".", "b", ".", "b">>

inC == <<"c", "/", "f">>
inH == <<"h", "/", "f">>
inCH == <<"c", "/", "h", "/", "f">>
inTop == <<"f">>

Yaml(path, tree) == [path |-> path, kind |-> "yaml", tree |-> tree]

FilePool ==
  { Yaml(inC, kA :> IntV(1)),
    Yaml(inTop, (kA :> IntV(2)) @@ (kB :> StrV(sF))),
    Yaml(inC, kA :> SeqV(<<IntV(1), IntV(2)>>)),
    Yaml(inH, kA :> SeqV(<<IntV(3)>>)),
    Yaml(inC, kA :> MapV(kB :> SeqV(<<IntV(1), IntV(2)>>))),
    Yaml(inH, kA :> MapV((kB :> SeqV(<<IntV(3)>>)) @@ (kA :> StrV(sF)))),
    Yaml(inTop, kA :> MapV(kB :> IntV(1))),
    Yaml(inCH, kA :> MapV((kB :> IntV(2)) @@ (kA :> StrV(<<".", ".", "/", "g">>)))),
    Yaml(inH, kB :> SeqV(<<StrV(sF), SeqV(<<StrV(sG)>>)>>)),
    Yaml(inH, kB :> SeqV(<<MapV(kA :> StrV(sF)), StrV(sG),
                           SeqV(<<StrV(sF)>>), IntV(1)>>)),
    Yaml(inC, (kA :> StrV(sF)) @@ (kB :> SeqV(<<>>))),
    [path |-> inH, kind |-> "unreadable", tree |-> EmptyMap],
    [path |-> inC, kind |-> "invalid", tree |-> EmptyMap] }

SeqsUpTo(S, n) == UNION {[1..k -> S] : k \in 0..n}

Opt(d, ow, ap, rp) ==
  [DefaultOverWrite |-> d, Overwrite |-> ow, Append |-> ap, ResolvePath |-> rp]

\* The option sets of the merge runs.
OptionPool ==
  { Opt(d, pat[1], pat[2], rp) :
      d \in BOOLEAN,
      pat \in { <<<<>>, <<>>>>,
                <<<<kA>>, <<>>>>,
                <<<<<<".", "b">>>>, <<pathA>>>> },
      rp \in { <<>>, <<<<".", "a">>, kB>> } }

\* The patterns of the policy runs: bare, relative and absolute.
PatternPool ==
  { kA, kB, <<"a", ".", "b">>,
    <<".", "a">>, <<".", "b">>, <<".", "a", ".", "b">>,
    pathA, pathB, pathAB }

\* The option sets of the policy runs: at most MaxPatterns patterns, the
\* first k of them overwrite patterns and the others append patterns.
PolicyOptions ==
  UNION { { Opt(d, SubSeq(q, 1, k), SubSeq(q, k + 1, Len(q)), <<>>) :
              d \in BOOLEAN, k \in 0..Len(q) } :
          q \in SeqsUpTo(PatternPool, MaxPatterns) }

QueryPaths == {Dollar, pathA, pathB, pathAA, pathAB, pathBA, pathBB}

(***************************************************************************)
(* State machine                                                           *)
(***************************************************************************)
InitCommon ==
  /\ policy = [panicked |-> FALSE, overwrite |-> <<>>,
               defaultOverwrite |-> FALSE, resolvePaths |-> <<>>]
  /\ root = Nil
  /\ idx = 1
  /\ pc = "start"
  /\ err = [kind |-> "none", path |-> <<>>, file |-> 0]
  /\ result = Nil
  /\ reads = <<>>
  /\ prev = Nil
  /\ config = Nil
  /\ qpath = <<>>
  /\ qres = FALSE

Init ==
  /\ options \in OptionPool
  /\ files \in SeqsUpTo(FilePool, MaxFiles)
  /\ InitCommon

InitPolicy ==
  /\ options \in PolicyOptions
  /\ files = <<>>
  /\ InitCommon

\* MergeFiles, up to the loop: buildPolicy(options), which may panic.
BuildPolicy ==
  /\ pc = "start"
  /\ policy' = buildPolicy(options)
  /\ pc' = IF policy'.panicked THEN "panic" ELSE "loop"
  /\ UNCHANGED <<options, files, root, idx, err, result, reads, prev, config,
                 qpath, qres>>

\* The loop of MergeFiles going on to the next file after an error.
MergeFile_Continue ==
  /\ pc = "loop"
  /\ idx <= Len(files)
  /\ reads' = Append(reads, files[idx].path)
  /\ prev' = root
  /\ \E o \in mergeFile(policy, root, files[idx]) :
       /\ root' = o.root
       /\ config' = o.config
       /\ idx' = idx + 1
       /\ IF o.err.kind # "none"
          THEN err' = [kind |-> o.err.kind, path |-> o.err.path, file |-> idx]
          ELSE UNCHANGED err
       /\ UNCHANGED <<result, pc>>
  /\ UNCHANGED <<options, files, policy, qpath, qres>>

\* One iteration of the loop of MergeFiles: m.mergeFile(f) and the return
\* on error.
MergeFile ==
  /\ pc = "loop"
  /\ idx <= Len(files)
  /\ reads' = Append(reads, files[idx].path)
  /\ prev' = root
  /\ \E o \in mergeFile(policy, root, files[idx]) :
       /\ root' = o.root
       /\ config' = o.config
       /\ IF o.err.kind # "none"
          THEN /\ err' = [kind |-> o.err.kind, path |-> o.err.path, file |-> idx]
               /\ result' = Nil
               /\ pc' = "error"
               /\ idx' = idx
          ELSE /\ idx' = idx + 1
               /\ UNCHANGED <<err, result, pc>>
  /\ UNCHANGED <<options, files, policy, qpath, qres>>

\* The end of MergeFiles: result is the tree handed to yaml.Marshal.
Return ==
  /\ pc = "loop"
  /\ idx > Len(files)
  /\ result' = root
  /\ pc' = "done"
  /\ UNCHANGED <<options, files, policy, root, idx, err, reads, prev, config,
                 qpath, qres>>

\* A call of m.isOverwrite(contextPath) on the policy built.
Query ==
  /\ pc = "loop"
  /\ \E p \in QueryPaths :
       /\ qpath' = p
       /\ qres' = isOverwrite(policy, p)
  /\ UNCHANGED <<options, files, policy, root, idx, pc, err, result, reads,
                 prev, config>>

Next == BuildPolicy \/ MergeFile \/ Return

Spec == Init /\ [][Next]_vars

NextPolicy == BuildPolicy \/ Query

SpecPolicy == InitPolicy /\ [][NextPolicy]_vars

(***************************************************************************)
(* Properties: policy matcher                                              *)
(***************************************************************************)
Range(q) == {q[i] : i \in 1..Len(q)}

\* The pattern as the specification normalizes it.
RefPattern(p) ==
  IF \/ Len(p) >= 1 /\ p[1] = "."
     \/ Len(p) >= 2 /\ p[1] = "$" /\ p[2] = "."
  THEN p ELSE <<"$", ".">> \o p

RefEntries(o) ==
  {[pattern |-> RefPattern(p), kind |-> TRUE] : p \in Range(o.Overwrite)}
    \cup {[pattern |-> RefPattern(p), kind |-> FALSE] : p \in Range(o.Append)}

RefRelative(e) == e.pattern[1] = "."

RefMatches(e, path) ==
  IF RefRelative(e)
  THEN \E n \in 0..Len(path) : SubSeq(path, n + 1, Len(path)) = e.pattern
  ELSE e.pattern = path

\* a sorts before b, or equals it, byte by byte.
RefLeq(a, b) ==
  \/ Len(a) <= Len(b) /\ SubSeq(b, 1, Len(a)) = a
  \/ \E i \in 1..Len(a) :
       /\ i <= Len(b)
       /\ SubSeq(a, 1, i - 1) = SubSeq(b, 1, i - 1)
       /\ Ord[a[i]] < Ord[b[i]]

\* The kinds declared for the smallest pattern among the entries of S.
SmallestKinds(S) ==
  {e.kind : e \in {x \in S : \A y \in S : RefLeq(x.pattern, y.pattern)}}

RefKinds(o, path) ==
  LET abs == {e \in RefEntries(o) : ~RefRelative(e) /\ RefMatches(e, path)}
      rel == {e \in RefEntries(o) : RefRelative(e) /\ RefMatches(e, path)}
  IN  IF abs # {} THEN SmallestKinds(abs)
      ELSE IF rel # {} THEN SmallestKinds(rel)
      ELSE {o.DefaultOverWrite}

\* C2: a policy set that construction returns never holds the same pattern
\* string with two different resolved kinds (a configuration declaring one
\* normalized pattern both overwrite and append is rejected).
C2_NoConflictingKinds ==
  pc = "loop" =>
    \A i, j \in 1..Len(policy.overwrite) :
      policy.overwrite[i].pattern = policy.overwrite[j].pattern
        => policy.overwrite[i].policy = policy.overwrite[j].policy

\* C3: isOverwrite(path) is the kind of the smallest matching absolute
\* pattern, else of the smallest matching relative pattern, else the
\* default, with patterns normalized and matched as specified.
C3_IsOverwriteReference ==
  (pc = "loop" /\ qpath # <<>>) => qres \in RefKinds(options, qpath)

\* C3 witness: a relative overwrite pattern and an absolute append pattern
\* both match the path queried, and the answer is append.
C3_Witness ==
  /\ pc = "loop"
  /\ qpath = pathAB
  /\ options.Overwrite = <<<<".", "b">>>>
  /\ options.Append = <<pathAB>>
  /\ qres = FALSE

(***************************************************************************)
(* Properties: document merger                                             *)
(*                                                                         *)
(* After a MergeFile step that reached mergeMapping, prev is the root the  *)
(* call was given, config the document merged into it, root the result.    *)
(***************************************************************************)
Merged == prev # Nil /\ config # Nil

RECURSIVE PathOf(_)
PathOf(keys) ==
  IF keys = <<>> THEN <<"$">>
  ELSE PathOf(SubSeq(keys, 1, Len(keys) - 1)) \o <<".">> \o keys[Len(keys)]

\* The value at a key path of a tree, Nil where there is none.
RECURSIVE At(_, _)
At(val, keys) ==
  IF keys = <<>> THEN val
  ELSE IF val.t = "map" /\ Head(keys) \in DOMAIN val.v
  THEN At(val.v[Head(keys)], Tail(keys))
  ELSE Nil

\* The pairs of mappings (destination d, source s, at key path keys) that a
\* merge of s into d descends into.
RECURSIVE Levels(_, _, _)
Levels(d, s, keys) ==
  {[d |-> d, s |-> s, keys |-> keys]}
    \cup UNION { Levels(d[k].v, s[k].v, Append(keys, k)) :
                 k \in {x \in (DOMAIN d) \cap (DOMAIN s) :
                          d[x].t = "map" /\ s[x].t = "map"} }

AllKeys == {kA, kB}

KeyPaths == {<<k>> : k \in AllKeys} \cup {<<k1, k2>> : k1 \in AllKeys, k2 \in AllKeys}

\* Document i as it is merged: loaded, then resolved against its directory.
Resolved(i) ==
  MapV(resolvePaths(policy, files[i].tree, Dir(files[i].path), <<"$">>))

Parent(q) == SubSeq(q, 1, Len(q) - 1)

IsScalar(val) == val.t \in {"int", "str"}

Shape(val) == IF IsScalar(val) THEN "scalar" ELSE val.t

Same(x, y) == x.t = y.t /\ x.v = y.v

\* Every mapping of the source on the way to keys, and the last one, holds
\* a single key.
RECURSIVE SingleChain(_, _)
SingleChain(s, keys) ==
  /\ Cardinality(DOMAIN s) = 1
  /\ keys = <<>> \/ SingleChain(s[Head(keys)].v, Tail(keys))

\* C1: a conflict at key k of the mapping at path p is decided by the
\* policy of the key's own path p.k: a sequence is replaced iff isOverwrite
\* of p.k holds and appended otherwise, a differing scalar is overwritten
\* only if isOverwrite of p.k holds.
C1_KeyPathDecides ==
  (Merged /\ err.kind = "none") =>
    \A L \in Levels(prev.v, config.v, <<>>) :
      \A k \in (DOMAIN L.d) \cap (DOMAIN L.s) :
        LET dv == L.d[k]
            sv == L.s[k]
            now == At(root, Append(L.keys, k))
            ow == isOverwrite(policy, PathOf(Append(L.keys, k)))
        IN  /\ (dv.t = "seq" /\ sv.t = "seq") =>
                 now = IF ow THEN sv ELSE SeqV(dv.v \o sv.v)
            /\ (IsScalar(dv) /\ IsScalar(sv) /\ ~Same(dv, sv)) => ow

\* The last document that defines key path q.
LastDefining(q) ==
  CHOOSE i \in 1..Len(files) :
    /\ At(Resolved(i), q) # Nil
    /\ \A j \in (i + 1)..Len(files) : At(Resolved(j), q) = Nil

\* Every document that defines key path q holds a scalar there, reached
\* through mappings only, and some document does.
ScalarEverywhere(q) ==
  /\ \A i \in 1..Len(files) :
       /\ At(Resolved(i), q).t \in {"nil", "int", "str"}
       /\ Len(q) > 1 => At(Resolved(i), Parent(q)).t \in {"nil", "map"}
  /\ \E i \in 1..Len(files) : At(Resolved(i), q) # Nil

\* C4: a scalar met at a key that already holds a scalar: equal values
\* leave the key alone without error; differing values fail with a
\* duplicate-key error naming the key's path when the policy consulted is
\* not overwrite, and are replaced by the later value when it is.
C4_ScalarConflict ==
  /\ pc = "done" =>
       \A q \in KeyPaths :
         (ScalarEverywhere(q) /\ isOverwrite(policy, PathOf(Parent(q))))
           => At(root, q) = At(Resolved(LastDefining(q)), q)
  /\ Merged =>
    \A L \in Levels(prev.v, config.v, <<>>) :
      \A k \in (DOMAIN L.d) \cap (DOMAIN L.s) :
        LET dv == L.d[k]
            sv == L.s[k]
            cpath == PathOf(Append(L.keys, k))
            now == At(root, Append(L.keys, k))
            ow == isOverwrite(policy, PathOf(L.keys))
        IN  (IsScalar(dv) /\ IsScalar(sv)) =>
              /\ Same(dv, sv) => (now = dv /\ err.path # cpath)
              /\ (~Same(dv, sv) /\ ~ow) =>
                   /\ pc = "error"
                   /\ now = dv
                   /\ err.path = cpath => err.kind = "duplicate"
                   /\ SingleChain(config.v, L.keys) =>
                        (err.kind = "duplicate" /\ err.path = cpath)
              /\ (~Same(dv, sv) /\ ow) =>
                   (err.path # cpath /\ (err.kind = "none" => now = sv))

\* C4 witness: the second document changed a scalar of the first under an
\* overwrite policy, and the merge returned.
C4_Witness ==
  /\ pc = "done"
  /\ Merged
  /\ kA \in (DOMAIN prev.v) \cap (DOMAIN config.v)
  /\ IsScalar(prev.v[kA]) /\ IsScalar(config.v[kA])
  /\ ~Same(prev.v[kA], config.v[kA])
  /\ root.v[kA] = config.v[kA]

\* C5: two values of different structural type (sequence, mapping, scalar)
\* at one key abort the merge with a structural-type-mismatch error for
\* that key.
C5_TypeMismatchAborts ==
  Merged =>
    \A L \in Levels(prev.v, config.v, <<>>) :
      \A k \in (DOMAIN L.d) \cap (DOMAIN L.s) :
        Shape(L.d[k]) # Shape(L.s[k]) =>
          /\ pc = "error"
          /\ err.path = PathOf(Append(L.keys, k)) => err.kind = "mismatch"

\* The sequences the documents i, i+1, ... hold at key path q, one after
\* the other.
RECURSIVE ConcatFrom(_, _)
ConcatFrom(i, q) ==
  IF i > Len(files) THEN <<>>
  ELSE (IF At(Resolved(i), q).t = "seq" THEN At(Resolved(i), q).v ELSE <<>>)
         \o ConcatFrom(i + 1, q)

\* Every document that defines key path q holds a sequence there, reached
\* through mappings only, and some document does.
SequenceEverywhere(q) ==
  /\ \A i \in 1..Len(files) :
       /\ At(Resolved(i), q).t \in {"nil", "seq"}
       /\ Len(q) > 1 => At(Resolved(i), Parent(q)).t \in {"nil", "map"}
  /\ \E i \in 1..Len(files) : At(Resolved(i), q).t = "seq"

\* C6: when every document defining a key holds a sequence there and the
\* policy consulted for it is not overwrite, the merged value is the
\* concatenation of those sequences in document order.
C6_SequencesConcatenated ==
  pc = "done" =>
    \A q \in KeyPaths :
      (SequenceEverywhere(q) /\ ~isOverwrite(policy, PathOf(Parent(q))))
        => At(root, q) = SeqV(ConcatFrom(1, q))

\* C6 witness: two documents each gave a non-empty sequence for one key and
\* the merge returned their concatenation.
C6_Witness ==
  /\ pc = "done"
  /\ Len(files) = 2
  /\ \E q \in KeyPaths :
       /\ SequenceEverywhere(q)
       /\ ~isOverwrite(policy, PathOf(Parent(q)))
       /\ At(Resolved(1), q).t = "seq" /\ Len(At(Resolved(1), q).v) = 2
       /\ At(Resolved(2), q).t = "seq" /\ Len(At(Resolved(2), q).v) = 1
       /\ Len(At(root, q).v) = 3

\* s merged into d gave r: r has the keys of both; a key of s alone holds
\* the value of s, a key of d alone keeps its value, and so on inside the
\* mappings the two share.
RECURSIVE UnionOf(_, _, _)
UnionOf(d, s, r) ==
  /\ DOMAIN r = (DOMAIN d) \cup (DOMAIN s)
  /\ \A k \in (DOMAIN s) \ (DOMAIN d) : r[k] = s[k]
  /\ \A k \in (DOMAIN d) \ (DOMAIN s) : r[k] = d[k]
  /\ \A k \in (DOMAIN d) \cap (DOMAIN s) :
       (d[k].t = "map" /\ s[k].t = "map") =>
         (r[k].t = "map" /\ UnionOf(d[k].v, s[k].v, r[k].v))

\* C7: a successful mergeMapping is a union on keys, at every level.
C7_UnionOnKeys ==
  (Merged /\ err.kind = "none") => UnionOf(prev.v, config.v, root.v)

\* C7 witness: a merge that succeeded with a key only the source had and a
\* key only the destination had.
C7_Witness ==
  /\ Merged
  /\ err.kind = "none"
  /\ (DOMAIN config.v) \ (DOMAIN prev.v) # {}
  /\ (DOMAIN prev.v) \ (DOMAIN config.v) # {}
  /\ \E k \in (DOMAIN config.v) \ (DOMAIN prev.v) : config.v[k].t = "map"

(***************************************************************************)
(* Properties: path resolver                                               *)
(***************************************************************************)
\* The document of the last MergeFile step as it was loaded, and the
\* directory of its file.
LastLoaded == MapV(files[Len(reads)].tree)
LastDir == Dir(files[Len(reads)].path)

RefResolves(cpath) ==
  \E p \in Range(options.ResolvePath) :
    RefMatches([pattern |-> RefPattern(p)], cpath)

\* The value is rewritten as a whole: a string at a matching path, or a
\* sequence of such.
RECURSIVE Rewritable(_, _)
Rewritable(l, cpath) ==
  IF l.t = "str" THEN RefResolves(cpath)
  ELSE IF l.t = "seq" THEN \A i \in 1..Len(l.v) : Rewritable(l.v[i], cpath)
  ELSE FALSE

RECURSIVE RewriteAll(_, _)
RewriteAll(l, dir) ==
  IF l.t = "str" THEN StrV(Join(dir, l.v))
  ELSE SeqV([i \in 1..Len(l.v) |-> RewriteAll(l.v[i], dir)])

RECURSIVE ExpectValue(_, _, _)
RECURSIVE ExpectKept(_, _, _)

\* What a mapping holds at a key after resolution, for the loaded value l.
ExpectValue(l, dir, cpath) ==
  IF l.t = "str" THEN (IF RefResolves(cpath) THEN StrV(Join(dir, l.v)) ELSE l)
  ELSE IF l.t = "map"
  THEN MapV([k \in DOMAIN l.v |-> ExpectValue(l.v[k], dir, cpath \o <<".">> \o k)])
  ELSE IF l.t = "seq"
  THEN IF Rewritable(l, cpath) THEN RewriteAll(l, dir)
       ELSE SeqV([i \in 1..Len(l.v) |-> ExpectKept(l.v[i], dir, cpath)])
  ELSE l

\* An element of a sequence that is not replaced: kept, its mappings
\* resolved where they are.
ExpectKept(e, dir, cpath) ==
  IF e.t = "map" THEN ExpectValue(e, dir, cpath)
  ELSE IF e.t = "seq"
  THEN SeqV([i \in 1..Len(e.v) |-> ExpectKept(e.v[i], dir, cpath)])
  ELSE e

\* Every string at a matching path joined with dir, all else as loaded.
RECURSIVE StrictValue(_, _, _)
StrictValue(l, dir, cpath) ==
  IF l.t = "str" THEN (IF RefResolves(cpath) THEN StrV(Join(dir, l.v)) ELSE l)
  ELSE IF l.t = "map"
  THEN MapV([k \in DOMAIN l.v |-> StrictValue(l.v[k], dir, cpath \o <<".">> \o k)])
  ELSE IF l.t = "seq"
  THEN SeqV([i \in 1..Len(l.v) |-> StrictValue(l.v[i], dir, cpath)])
  ELSE l

ExpectDoc(i) == ExpectValue(MapV(files[i].tree), Dir(files[i].path), <<"$">>)

\* Document i alone defines key path q, below mappings in every document.
OnlyIn(i, q) ==
  /\ At(ExpectDoc(i), q) # Nil
  /\ \A j \in 1..Len(files) :
       /\ j # i => At(ExpectDoc(j), q) = Nil
       /\ Len(q) > 1 => At(ExpectDoc(j), Parent(q)).t \in {"nil", "map"}

\* The first document becomes the root as resolved; what the root holds is
\* not rewritten when later documents are merged.
ResolvedOnce ==
  /\ (prev = Nil /\ config # Nil) => root = config
  /\ pc = "done" =>
       \A i \in 1..Len(files) : \A q \in KeyPaths :
         OnlyIn(i, q) => At(root, q) = At(ExpectDoc(i), q)

\* C8, as claimed: every string scalar at a context path that resolvePath
\* matches is joined with the directory of its own document, once, before
\* the merge; nothing else changes, nor does anything already in the root.
C8_EveryMatchingStringJoined ==
  /\ config # Nil => config = StrictValue(LastLoaded, LastDir, <<"$">>)
  /\ ResolvedOnce

\* C8, amended: a string that is the value of a mapping key, or is inside
\* a sequence whose elements are all rewritten, is joined with the
\* directory of its own document when its context path matches; a string
\* element of a sequence that is not replaced keeps its loaded value.
C8_ResolvedAgainstOwnDir ==
  /\ config # Nil => config = ExpectValue(LastLoaded, LastDir, <<"$">>)
  /\ ResolvedOnce

\* C8 witness: the merged result holds a string of the first document
\* joined with the first directory and one of the second joined with the
\* second.
C8_Witness ==
  /\ pc = "done"
  /\ Len(files) = 2
  /\ At(root, <<kA>>) = StrV(<<"c", "/", "f">>)
  /\ At(root, <<kB>>).t = "seq"
  /\ Len(At(root, <<kB>>).v) >= 1
  /\ At(root, <<kB>>).v[1] = StrV(<<"h", "/", "f">>)

\* C9, as claimed: the sequence at a key is replaced by its rewritten form
\* if every element was rewritten, and is otherwise exactly as loaded,
\* nested values included.
C9_AllOrNothing ==
  config # Nil =>
    \A q \in KeyPaths :
      At(LastLoaded, q).t = "seq" =>
        At(config, q) =
          IF Rewritable(At(LastLoaded, q), PathOf(q))
          THEN RewriteAll(At(LastLoaded, q), LastDir)
          ELSE At(LastLoaded, q)

\* C9, amended: the sequence at a key is replaced by its rewritten form if
\* every element was rewritten; otherwise it keeps its elements in place,
\* scalars as loaded, while the mappings among them are resolved.
C9_AllOrKeptInPlace ==
  config # Nil =>
    \A q \in KeyPaths :
      LET l == At(LastLoaded, q)
          r == At(config, q)
      IN  l.t = "seq" =>
            IF Rewritable(l, PathOf(q)) THEN r = RewriteAll(l, LastDir)
            ELSE /\ r.t = "seq"
                 /\ Len(r.v) = Len(l.v)
                 /\ \A i \in 1..Len(l.v) :
                      /\ IsScalar(l.v[i]) => r.v[i] = l.v[i]
                      /\ l.v[i].t = "map" =>
                           r.v[i] = ExpectValue(l.v[i], LastDir, PathOf(q))
                      /\ l.v[i].t = "seq" =>
                           r.v[i] = ExpectKept(l.v[i], LastDir, PathOf(q))

\* C9 witness: a sequence with a string at a matching path was not
\* replaced, the string is as loaded, and a mapping beside it was resolved.
C9_Witness ==
  /\ config # Nil
  /\ At(LastLoaded, <<kB>>).t = "seq"
  /\ RefResolves(pathB)
  /\ ~Rewritable(At(LastLoaded, <<kB>>), pathB)
  /\ \E i \in 1..Len(At(LastLoaded, <<kB>>).v) :
       /\ At(LastLoaded, <<kB>>).v[i].t = "str"
       /\ At(config, <<kB>>).v[i] = At(LastLoaded, <<kB>>).v[i]
  /\ \E i \in 1..Len(At(LastLoaded, <<kB>>).v) :
       /\ At(LastLoaded, <<kB>>).v[i].t = "map"
       /\ At(config, <<kB>>).v[i] # At(LastLoaded, <<kB>>).v[i]

(***************************************************************************)
(* Properties: MergeFiles                                                  *)
(***************************************************************************)
\* C10: the documents are read in caller order; the first failure ends the
\* run: nothing is read after it, the error is that document's, and no tree
\* is returned with an error.
C10_AbortAtFirstFailure ==
  /\ Len(reads) <= Len(files)
  /\ \A i \in 1..Len(reads) : reads[i] = files[i].path
  /\ idx \in {Len(reads), Len(reads) + 1}
  /\ err.kind # "none" =>
       /\ pc = "error"
       /\ result = Nil
       /\ err.file = Len(reads)
       /\ idx = err.file
       /\ \A i \in 1..(err.file - 1) : files[i].kind = "yaml"
       /\ files[err.file].kind = "unreadable" <=> err.kind = "read"
       /\ files[err.file].kind = "invalid" <=> err.kind = "yaml"
  /\ pc = "error" => err.kind # "none"
  /\ pc = "done" =>
       /\ err.kind = "none"
       /\ Len(reads) = Len(files)
       /\ result = root
       /\ \A i \in 1..Len(files) : files[i].kind = "yaml"

\* C10 witness: the first of two documents failed and the second was never
\* read.
C10_Witness ==
  /\ pc = "error"
  /\ Len(files) = 2
  /\ err.file = 1
  /\ Len(reads) = 1
  /\ result = Nil

====
